---- MODULE Spec2Model ----
(***************************************************************************)
(* The connection / model registry of the MECAZON teacher server           *)
(* (src/models/Product.js, the server part, lines 23-250).                 *)
(*                                                                         *)
(* getConnection and getModel are async functions: each runs synchronously *)
(* up to its next `await`, where any other task may run.  A task is one    *)
(* caller of the registry (a route handler, or startServer).               *)
(*                                                                         *)
(* Spec and LongSpec follow the registry under arbitrary callers,          *)
(* RouteSpec the four route handlers (lines 117-215) and StartSpec         *)
(* startServer (lines 218-250), which runs alone until app.listen.         *)
(***************************************************************************)
EXTENDS Integers, FiniteSets, Sequences, TLC

\* ------------------------------------------------------------------ bounds
NumProcs == 2    \* concurrent callers of the registry
MaxCalls == 2    \* registry calls started in one behaviour of Spec
MaxLongCalls == 3 \* registry calls started in one behaviour of LongSpec
MaxRequests == 1 \* HTTP requests received in one behaviour of RouteSpec
NumHandlers == 1 \* tasks that serve HTTP requests in RouteSpec

Procs == 1..NumProcs
\* the tasks that run route handlers
Handlers == {p \in Procs : p <= NumHandlers}

\* ------------------------------------------------------------------ values
Undefined == [kind |-> "undefined"]
\* what a name inherited from Object.prototype evaluates to on a plain object
ObjectProtoValue == [kind |-> "function"]
UriString(d) == [kind |-> "string", of |-> d]
NoError == "none"

\* the own keys of the uriMap object literal
UriKeys == {"ProductsDB", "UsersEmployeesDB"}
\* names every plain object inherits ("constructor" stands for all of them)
ProtoNames == {"constructor"}
\* the database names startServer passes to getConnection (testDatabases)
TestDatabases == {"ProductsDB", "UsersEmployeesDB"}
\* database names a caller may pass (path parameter :database)
DbNames == UriKeys \cup {"OrdersDB"} \cup ProtoNames
\* collection names a caller may pass (path parameter :collection)
CollNames == {"Products", "Users", "Employees", "Orders"}

\* `${dbName}-${collectionName}`
modelKey(d, c) == d \o "-" \o c
ModelKeys == {modelKey(d, c) : d \in DbNames, c \in CollNames}

\* JSON values of a request body (Undefined: the field is absent)
Null == [kind |-> "null"]
Obj(doc) == [kind |-> "object", doc |-> doc]
Arr(items) == [kind |-> "array", items |-> items]
Str(text) == [kind |-> "string", text |-> text]
\* documents, as productSchema sees them
Widget == [name |-> "Widget", price |-> 5]
Gadget == [name |-> "Gadget", price |-> 3]
Gizmo == [name |-> "Gizmo", price |-> 4]
Bad == [name |-> "Bad", price |-> -1]
\* productSchema: name is required, price is required and at least 0
Validate(doc) == doc.name # "" /\ doc.price >= 0
\* the update validators (runValidators: true) on { $set: update }
ValidateUpdate(update) == update.price >= 0

\* the path parameter :id: a string that casts to an ObjectId, or one that does not
ObjectId(n) == [kind |-> "ObjectId", n |-> n]
MalformedId == [kind |-> "string", text |-> "nonexistent-id"]
NoId == [kind |-> "none"]
\* the cast of :id to the schema's _id type
CastsToObjectId(id) == id.kind = "ObjectId"
\* the document a fresh collection holds, and its _id
SeedRecord == [id |-> 1, doc |-> Widget]
PathIds == {ObjectId(SeedRecord.id), ObjectId(0), MalformedId}

\* req.body after express.json()
Body(document, documents, update) ==
    [document |-> document, documents |-> documents, update |-> update]
\* req: the route, req.params and req.body
Req(r, d, c, id, body) ==
    [route |-> r, database |-> d, collection |-> c, id |-> id, body |-> body]
NoReq == Req("none", "none", "none", NoId, Body(Undefined, Undefined, Undefined))

\* the values the body fields take
DocumentValues == {Undefined, Null, Obj(Widget), Obj(Bad)}
DocumentsValues == {Undefined, Str("Gadget"), Arr(<<Gadget, Gizmo>>), Arr(<<Gadget, Bad>>)}
UpdateValues == {Undefined, Obj([price |-> 7]), Obj([price |-> -1])}

\* the paths requests name: a served collection, an unknown collection, an
\* unconfigured database
RoutePaths == {"ProductsDB", "OrdersDB"} \X {"Products", "Orders"}
ServedPath == <<"ProductsDB", "Products">>
NoBody == Body(Undefined, Undefined, Undefined)

\* the requests each route receives: every body and id on the served path, and
\* on the other paths the bodies and ids that differ in presence only
FindRequests ==
    {Req("find", pth[1], pth[2], NoId, NoBody) : pth \in RoutePaths}
InsertRequests ==
    {Req("insert", x[1][1], x[1][2], NoId, Body(x[2], x[3], Undefined)) :
        x \in {y \in RoutePaths \X DocumentValues \X DocumentsValues :
                 \/ y[1] = ServedPath
                 \/ (y[2] = Undefined /\ y[3] = Undefined)
                 \/ (y[2] = Obj(Widget) /\ y[3] = Arr(<<Gadget, Gizmo>>))}}
DeleteRequests ==
    {Req("delete", x[1][1], x[1][2], x[2], NoBody) :
        x \in {y \in RoutePaths \X PathIds :
                 y[1] = ServedPath \/ y[2] = ObjectId(0)}}
UpdateRequests ==
    {Req("update", x[1][1], x[1][2], x[2], Body(Undefined, Undefined, x[3])) :
        x \in {y \in RoutePaths \X PathIds \X UpdateValues :
                 \/ (y[1] = ServedPath /\ y[3] # Undefined)
                 \/ (y[2] = ObjectId(0) /\ y[3] \in {Undefined, Obj([price |-> 7])})}}

\* res.status(...).json(...) / .send(...): the status, the error (or none) and
\* the field of the JSON body that carries the _ids, with them
Response(r, q, status, error, field, ids) ==
    [route |-> r, request |-> q, status |-> status, error |-> error,
     field |-> field, ids |-> ids]

VARIABLES
    uriMap,       \* own properties of uriMap: name -> URI string or undefined
    connections,  \* own properties of the connections object
    models,       \* own properties of the models object
    pc,           \* per task: "idle", "awaitCreate", "awaitConn"
    op,           \* per task: the call in progress, "getConnection" or "getModel"
    db,           \* per task: dbName argument
    coll,         \* per task: collectionName argument
    cres,         \* per task: what the task's getConnection call resolved to
    cerr,         \* per task: what the task's getConnection call threw
    settled,      \* the call that settled last, and its value or error
    estLog,       \* per database: the createConnection events, in order:
                  \* "start" (the call), "resolve", "reject" (its settling)
    builds,       \* per model key: connection.model calls made
    returned,     \* per mapped database: the values getConnection calls have resolved to
    handed,       \* per model key: the values getModel calls have resolved to
    calls,        \* registry calls started
    hits,         \* getModel calls answered from the accessor cache
    route,        \* per task: the route handler it runs, or "none"
    req,          \* per task: the request the handler serves
    hpc,          \* per task: the handler's await: "none", "awaitModel", "awaitOp"
    Model,        \* per task: the handler's Model constant, once getModel resolved
    records,      \* per database and collection: the documents stored
    nextId,       \* the next _id the driver generates
    response,     \* the response sent last
    requests,     \* requests received
    up,           \* per mapped database: whether its MongoDB server answers
    startAt,      \* startServer: where it stands
    dbName,       \* startServer: the database of the current iteration
    testCollections, \* startServer: the collections still to test in it
    startModel,   \* startServer: its Model constant
    err           \* startServer: the error its catch block caught

\* what the route handlers add to the registry's state
routeVars == <<route, req, hpc, Model, records, nextId, response, requests>>

\* what startServer and the database servers add
startVars == <<up, startAt, dbName, testCollections, startModel, err>>

vars == <<uriMap, connections, models, pc, op, db, coll, cres, cerr, settled,
          estLog, builds, returned, handed, calls, hits, routeVars, startVars>>

\* ------------------------------------------------------------------ helpers
\* JavaScript truthiness of the values that occur here
Truthy(v) == v.kind \notin {"undefined", "null"}

\* obj[name] on a plain object: the own property, else the inherited one
Lookup(obj, name) ==
    IF name \in DOMAIN obj /\ obj[name] # Undefined THEN obj[name]
    ELSE IF name \in ProtoNames THEN ObjectProtoValue
    ELSE Undefined

\* how often event e stands in a log
Count(log, e) == Cardinality({i \in DOMAIN log : log[i] = e})
\* per database: createConnection calls made, resolved, rejected
attempts(d) == Count(estLog[d], "start")
created(d) == Count(estLog[d], "resolve")
failed(d) == Count(estLog[d], "reject")

\* the Connection a resolved mongoose.createConnection yields
NewConnection(d) ==
    [kind |-> "Connection", of |-> d, id |-> created(d) + 1, state |-> "connected"]

\* the model connection.model(collectionName, schema, collectionName) yields
NewModel(c, connection, key) ==
    [kind |-> "Model", name |-> c, conn |-> connection, id |-> builds[key] + 1]

\* a switch whose default case falls back to the product schema instead of throwing
SchemaForFallingBack(c) ==
    CASE c = "Products"  -> [schema |-> "productSchema", err |-> NoError]
      [] c = "Users"     -> [schema |-> "none", err |-> "ReferenceError"]
      [] c = "Employees" -> [schema |-> "none", err |-> "ReferenceError"]
      [] OTHER           -> [schema |-> "productSchema", err |-> NoError]

\* the switch over collectionName: the schema, or what evaluating the case throws
\* (userSchema and employeeSchema are never declared: their imports are commented out)
SchemaFor(c) ==
    CASE c = "Products"  -> [schema |-> "productSchema", err |-> NoError]
      [] c = "Users"     -> [schema |-> "none", err |-> "ReferenceError"]
      [] c = "Employees" -> [schema |-> "none", err |-> "ReferenceError"]
      [] OTHER           -> [schema |-> "none", err |-> "UnknownCollection"]

\* the uriMap literal, given the databases whose environment variable is set
UriMapOf(env) == [d \in UriKeys |-> IF d \in env THEN UriString(d) ELSE Undefined]

\* the tasks awaiting mongoose.createConnection for database d
InFlight(d) == {p \in Procs : pc[p] = "awaitCreate" /\ db[p] = d}

\* a settled call: f(d, c) resolved to v, or threw e
Outcome(f, d, c, v, e) ==
    [op |-> f, db |-> d, coll |-> c, ret |-> v, err |-> e]

\* ------------------------------------------------------------------ initial state
Init ==
    /\ \E env \in SUBSET UriKeys : uriMap = UriMapOf(env)
    /\ connections = [d \in UriKeys |-> Undefined]
    /\ models = [k \in ModelKeys |-> Undefined]
    /\ pc = [p \in Procs |-> "idle"]
    /\ op = [p \in Procs |-> "none"]
    /\ db = [p \in Procs |-> "none"]
    /\ coll = [p \in Procs |-> "none"]
    /\ cres = [p \in Procs |-> Undefined]
    /\ cerr = [p \in Procs |-> NoError]
    /\ settled = Outcome("none", "none", "none", Undefined, NoError)
    /\ estLog = [d \in UriKeys |-> <<>>]
    /\ builds = [k \in ModelKeys |-> 0]
    /\ returned = [d \in UriKeys |-> {}]
    /\ handed = [k \in ModelKeys |-> {}]
    /\ calls = 0
    /\ hits = 0
    /\ route = [p \in Procs |-> "none"]
    /\ req = [p \in Procs |-> NoReq]
    /\ hpc = [p \in Procs |-> "none"]
    /\ Model = [p \in Procs |-> Undefined]
    /\ records = [d \in UriKeys |-> [c \in CollNames |-> {SeedRecord}]]
    /\ nextId = SeedRecord.id + 1
    /\ response = Response("none", NoReq, 0, NoError, "none", <<>>)
    /\ requests = 0
    /\ up = [d \in UriKeys |-> TRUE]
    /\ startAt = "notStarted"
    /\ dbName = "none"
    /\ testCollections = <<>>
    /\ startModel = Undefined
    /\ err = NoError

\* ------------------------------------------------------------------ getConnection
\* the synchronous part of getConnection(d): throw when no URI is mapped, start
\* an establishment when nothing is cached, else return the cached entry
ConnOutcome(d) ==
    IF ~Truthy(Lookup(uriMap, d))
    THEN [way |-> "throw", value |-> Undefined, error |-> "UnconfiguredDatabase"]
    ELSE IF ~Truthy(Lookup(connections, d))
    THEN [way |-> "create", value |-> Undefined, error |-> NoError]
    ELSE [way |-> "hit", value |-> Lookup(connections, d), error |-> NoError]

\* a getConnection that stores the connection before awaiting it: the cache
\* holds a Connection that is still connecting
GetConnectionEnterStoringEarly(d, o) ==
    /\ estLog' = IF o.way = "create" THEN [estLog EXCEPT ![d] = Append(@, "start")] ELSE estLog
    /\ returned' = IF o.way = "hit" /\ d \in UriKeys
                   THEN [returned EXCEPT ![d] = @ \cup {o.value}]
                   ELSE returned
    /\ connections' = IF o.way = "create"
                      THEN [connections EXCEPT ![d] =
                               [kind |-> "Connection", of |-> d, id |-> created(d) + 1,
                                state |-> "connecting"]]
                      ELSE connections

\* what getConnection(d) does to the registry up to its await (or to its end,
\* when it has none): nothing is stored; a createConnection call is counted
GetConnectionEnter(d, o) ==
    /\ estLog' = IF o.way = "create" THEN [estLog EXCEPT ![d] = Append(@, "start")] ELSE estLog
    /\ returned' = IF o.way = "hit" /\ d \in UriKeys
                   THEN [returned EXCEPT ![d] = @ \cup {o.value}]
                   ELSE returned
    /\ connections' = connections

\* task p suspends at an await inside f(d, c)
Suspend(p, at, f, d, c, v, e) ==
    /\ pc' = [pc EXCEPT ![p] = at]
    /\ op' = [op EXCEPT ![p] = f]
    /\ db' = [db EXCEPT ![p] = d]
    /\ coll' = [coll EXCEPT ![p] = c]
    /\ cres' = [cres EXCEPT ![p] = v]
    /\ cerr' = [cerr EXCEPT ![p] = e]

\* task p's call settles to v or e: its locals are gone
Settle(p, v, e) ==
    /\ settled' = Outcome(op[p], db[p], coll[p], v, e)
    /\ pc' = [pc EXCEPT ![p] = "idle"]
    /\ op' = [op EXCEPT ![p] = "none"]
    /\ db' = [db EXCEPT ![p] = "none"]
    /\ coll' = [coll EXCEPT ![p] = "none"]
    /\ cres' = [cres EXCEPT ![p] = Undefined]
    /\ cerr' = [cerr EXCEPT ![p] = NoError]

\* a caller (startServer) calls getConnection(d), in a behaviour of at most
\* budget registry calls
GetConnectionCall(p, d, budget) ==
    /\ pc[p] = "idle"
    /\ calls < budget
    /\ calls' = calls + 1
    /\ LET o == ConnOutcome(d) IN
       /\ GetConnectionEnter(d, o)
       /\ IF o.way = "create"
          THEN /\ Suspend(p, "awaitCreate", "getConnection", d, "none", Undefined, NoError)
               /\ settled' = settled
          ELSE /\ settled' = Outcome("getConnection", d, "none", o.value, o.error)
               /\ UNCHANGED <<pc, op, db, coll, cres, cerr>>
    /\ UNCHANGED <<uriMap, models, builds, handed, hits>>

\* a registry with one global lock: an establishment completes only when no
\* establishment of an earlier task is pending, whatever its database
CreateResolveSerialized(p) ==
    /\ pc[p] = "awaitCreate"
    /\ \A q \in Procs : q < p => pc[q] # "awaitCreate"
    /\ LET d == db[p] IN
       /\ connections' = [connections EXCEPT ![d] = NewConnection(d)]
       /\ estLog' = [estLog EXCEPT ![d] = Append(@, "resolve")]
       /\ returned' = [returned EXCEPT ![d] = @ \cup {connections'[d]}]
       /\ IF op[p] = "getConnection"
          THEN Settle(p, connections'[d], NoError)
          ELSE /\ pc' = [pc EXCEPT ![p] = "awaitConn"]
               /\ cres' = [cres EXCEPT ![p] = connections'[d]]
               /\ UNCHANGED <<op, db, coll, cerr, settled>>
    /\ UNCHANGED <<uriMap, models, builds, handed, calls, hits>>

\* the awaited mongoose.createConnection resolves: store the Connection, then
\* return the entry just stored
CreateResolve(p) ==
    /\ pc[p] = "awaitCreate"
    /\ LET d == db[p] IN
       /\ connections' = [connections EXCEPT ![d] = NewConnection(d)]
       /\ estLog' = [estLog EXCEPT ![d] = Append(@, "resolve")]
       /\ returned' = [returned EXCEPT ![d] = @ \cup {connections'[d]}]
       /\ IF op[p] = "getConnection"
          THEN Settle(p, connections'[d], NoError)
          ELSE /\ pc' = [pc EXCEPT ![p] = "awaitConn"]
               /\ cres' = [cres EXCEPT ![p] = connections'[d]]
               /\ UNCHANGED <<op, db, coll, cerr, settled>>
    /\ UNCHANGED <<uriMap, models, builds, handed, calls, hits>>

\* a rejection that leaves the failed Connection in the cache
CreateRejectCachingFailure(p) ==
    /\ pc[p] = "awaitCreate"
    /\ estLog' = [estLog EXCEPT ![db[p]] = Append(@, "reject")]
    /\ connections' = [connections EXCEPT ![db[p]] =
                          [kind |-> "Connection", of |-> db[p], id |-> 0, state |-> "failed"]]
    /\ IF op[p] = "getConnection"
       THEN Settle(p, Undefined, "ConnectionError")
       ELSE /\ pc' = [pc EXCEPT ![p] = "awaitConn"]
            /\ cerr' = [cerr EXCEPT ![p] = "ConnectionError"]
            /\ UNCHANGED <<op, db, coll, cres, settled>>
    /\ UNCHANGED <<uriMap, models, builds, returned, handed, calls, hits>>

\* the awaited mongoose.createConnection rejects: getConnection throws, nothing is stored
CreateReject(p) ==
    /\ pc[p] = "awaitCreate"
    /\ estLog' = [estLog EXCEPT ![db[p]] = Append(@, "reject")]
    /\ IF op[p] = "getConnection"
       THEN Settle(p, Undefined, "ConnectionError")
       ELSE /\ pc' = [pc EXCEPT ![p] = "awaitConn"]
            /\ cerr' = [cerr EXCEPT ![p] = "ConnectionError"]
            /\ UNCHANGED <<op, db, coll, cres, settled>>
    /\ UNCHANGED <<uriMap, connections, models, builds, returned, handed, calls, hits>>

\* ------------------------------------------------------------------ getModel
\* a getModel without the cache test of line 85: it asks getConnection and
\* builds the model again on every call
GetModelCallSkippingCache(p, d, c, budget) ==
    /\ pc[p] = "idle"
    /\ calls < budget
    /\ calls' = calls + 1
    /\ LET o == ConnOutcome(d) IN
       /\ GetConnectionEnter(d, o)
       /\ Suspend(p, IF o.way = "create" THEN "awaitCreate" ELSE "awaitConn",
                  "getModel", d, c, o.value, o.error)
       /\ UNCHANGED <<settled, handed, hits>>
    /\ UNCHANGED <<uriMap, models, builds>>

\* a caller (a route handler, startServer) calls getModel(d, c), in a behaviour
\* of at most budget registry calls
GetModelCall(p, d, c, budget) ==
    /\ pc[p] = "idle"
    /\ calls < budget
    /\ calls' = calls + 1
    /\ IF Truthy(Lookup(models, modelKey(d, c)))
       THEN /\ settled' = Outcome("getModel", d, c, Lookup(models, modelKey(d, c)), NoError)
            /\ handed' = [handed EXCEPT ![modelKey(d, c)] = @ \cup {Lookup(models, modelKey(d, c))}]
            /\ hits' = hits + 1
            /\ UNCHANGED <<pc, op, db, coll, cres, cerr, connections, estLog, returned>>
       ELSE LET o == ConnOutcome(d) IN
            /\ GetConnectionEnter(d, o)
            /\ Suspend(p, IF o.way = "create" THEN "awaitCreate" ELSE "awaitConn",
                       "getModel", d, c, o.value, o.error)
            /\ UNCHANGED <<settled, handed, hits>>
    /\ UNCHANGED <<uriMap, models, builds>>

\* a getModel that swallows the error of getConnection and goes on with an
\* undefined connection
ModelResumeSwallowing(p) ==
    /\ pc[p] = "awaitConn"
    /\ LET key == modelKey(db[p], coll[p])
           s == SchemaFor(coll[p]) IN
       IF s.err # NoError
       THEN /\ Settle(p, Undefined, s.err)
            /\ UNCHANGED <<models, builds, handed>>
       ELSE IF cres[p].kind # "Connection"
       THEN /\ Settle(p, Undefined, "TypeError")
            /\ UNCHANGED <<models, builds, handed>>
       ELSE /\ models' = [models EXCEPT ![key] = NewModel(coll[p], cres[p], key)]
            /\ builds' = [builds EXCEPT ![key] = @ + 1]
            /\ handed' = [handed EXCEPT ![key] = @ \cup {models'[key]}]
            /\ Settle(p, models'[key], NoError)
    /\ UNCHANGED <<uriMap, connections, estLog, returned, calls, hits>>

\* getModel resumes after `await getConnection(dbName)`: rethrow, or pick the
\* schema, build the model on the connection, store it and return the entry
ModelResume(p) ==
    /\ pc[p] = "awaitConn"
    /\ LET key == modelKey(db[p], coll[p])
           s == SchemaFor(coll[p]) IN
       IF cerr[p] # NoError
       THEN /\ Settle(p, Undefined, cerr[p])
            /\ UNCHANGED <<models, builds, handed>>
       ELSE IF s.err # NoError
       THEN /\ Settle(p, Undefined, s.err)
            /\ UNCHANGED <<models, builds, handed>>
       ELSE IF cres[p].kind # "Connection"
       THEN /\ Settle(p, Undefined, "TypeError")
            /\ UNCHANGED <<models, builds, handed>>
       ELSE /\ models' = [models EXCEPT ![key] = NewModel(coll[p], cres[p], key)]
            /\ builds' = [builds EXCEPT ![key] = @ + 1]
            /\ handed' = [handed EXCEPT ![key] = @ \cup {models'[key]}]
            /\ Settle(p, models'[key], NoError)
    /\ UNCHANGED <<uriMap, connections, estLog, returned, calls, hits>>

\* ------------------------------------------------------------------ route handlers
\* the handler of task p answers request q and ends
Respond(p, q, status, error, field, ids) ==
    /\ response' = Response(q.route, q, status, error, field, ids)
    /\ route' = [route EXCEPT ![p] = "none"]
    /\ req' = [req EXCEPT ![p] = NoReq]
    /\ hpc' = [hpc EXCEPT ![p] = "none"]
    /\ Model' = [Model EXCEPT ![p] = Undefined]

\* the handler of task p, serving q, suspends at an await
Await(p, q, at, m) ==
    /\ route' = [route EXCEPT ![p] = q.route]
    /\ req' = [req EXCEPT ![p] = q]
    /\ hpc' = [hpc EXCEPT ![p] = at]
    /\ Model' = [Model EXCEPT ![p] = m]
    /\ response' = response

\* POST /insert: neither branch of lines 142-157 is taken
NothingToInsert(body) ==
    /\ ~Truthy(body.document)
    /\ ~(Truthy(body.documents) /\ body.documents.kind = "array")

\* an insert handler whose last branch reports success with nothing inserted
ContinueAcceptingNothing(p, q, m) ==
    IF q.route = "insert" /\ NothingToInsert(q.body)
    THEN Respond(p, q, 201, NoError, "insertedIds", <<>>)
    ELSE Await(p, q, "awaitOp", m)

\* `await getModel(...)` has resolved to m: the handler of q runs on to its
\* next await (the query) or, for an insert without documents, to its 400
Continue(p, q, m) ==
    IF q.route = "insert" /\ NothingToInsert(q.body)
    THEN Respond(p, q, 400, NoError, "error", <<>>)
    ELSE Await(p, q, "awaitOp", m)

\* `await getModel(...)` has thrown e: the catch block answers 500
Catch(p, q, e) == Respond(p, q, 500, e, "error", <<>>)

\* the handler of q calls getModel (lines 122, 139, 174, 196) and runs on to
\* its first await: getModel's when it suspends, else the handler's own
CallGetModel(p, q) ==
    /\ GetModelCall(p, q.database, q.collection, MaxRequests)
    /\ IF pc'[p] = "idle"
       THEN Continue(p, q, settled'.ret)
       ELSE Await(p, q, "awaitModel", Undefined)
    /\ UNCHANGED <<records, nextId>>

\* a request arrives at a route: what every handler does first
Receive(p) ==
    /\ pc[p] = "idle"
    /\ route[p] = "none"
    /\ requests < MaxRequests
    /\ requests' = requests + 1

\* app.get("/find/:database/:collection")
FindRequest(p, q) == Receive(p) /\ CallGetModel(p, q)

\* app.post("/insert/:database/:collection")
InsertRequest(p, q) == Receive(p) /\ CallGetModel(p, q)

\* app.delete("/delete/:database/:collection/:id")
DeleteRequest(p, q) == Receive(p) /\ CallGetModel(p, q)

\* an update handler that asks the registry before it looks at the body
UpdateRequestRegistryFirst(p, q) == Receive(p) /\ CallGetModel(p, q)

\* app.put("/update/:database/:collection/:id"): 400 without req.body.update,
\* before getModel is called
UpdateRequest(p, q) ==
    /\ Receive(p)
    /\ IF ~Truthy(q.body.update)
       THEN /\ Respond(p, q, 400, NoError, "error", <<>>)
            /\ UNCHANGED <<uriMap, connections, models, pc, op, db, coll, cres, cerr,
                           settled, estLog, builds, returned, handed, calls, hits,
                           records, nextId>>
       ELSE CallGetModel(p, q)

\* the establishment a handler's getModel call waits for resolves
HandlerCreateResolve(p) ==
    /\ route[p] # "none"
    /\ CreateResolve(p)
    /\ UNCHANGED routeVars

\* the establishment a handler's getModel call waits for rejects
HandlerCreateReject(p) ==
    /\ route[p] # "none"
    /\ CreateReject(p)
    /\ UNCHANGED routeVars

\* the handler's getModel call resumes and settles; the handler goes on with
\* the model, or answers 500 with the error
HandlerModelResume(p) ==
    /\ hpc[p] = "awaitModel"
    /\ ModelResume(p)
    /\ IF settled'.err # NoError
       THEN Catch(p, req[p], settled'.err)
       ELSE Continue(p, req[p], settled'.ret)
    /\ UNCHANGED <<records, nextId, requests>>

\* the documents of the collection model m is bound to
RecordsOf(m) == records[m.conn.of][m.name]
\* that collection, holding rs
StoreRecords(m, rs) == [records EXCEPT ![m.conn.of][m.name] = rs]
\* the _ids in S, in ascending order
RECURSIVE SortedIds(_)
SortedIds(S) ==
    IF S = {} THEN <<>>
    ELSE LET least == CHOOSE n \in S : \A k \in S : n <= k
         IN <<least>> \o SortedIds(S \ {least})
\* the _ids the driver gives to n new documents
FreshIds(n) == [i \in 1..n |-> nextId + i - 1]

\* the registry, as a query leaves it
QueryFrame ==
    UNCHANGED <<uriMap, connections, models, pc, op, db, coll, cres, cerr, settled,
                estLog, builds, returned, handed, calls, hits, requests>>

\* GET /find: `await Model.find({}).lean()` settles (answers: the database does)
FindDone(p, answers) ==
    /\ hpc[p] = "awaitOp" /\ route[p] = "find"
    /\ IF ~answers
       THEN Catch(p, req[p], "DatabaseError")
       ELSE Respond(p, req[p], 200, NoError, "documents",
                    SortedIds({r.id : r \in RecordsOf(Model[p])}))
    /\ UNCHANGED <<records, nextId>>
    /\ QueryFrame

\* an insert handler that tests req.body.documents before req.body.document
InsertDoneDocumentsFirst(p, answers) ==
    /\ hpc[p] = "awaitOp" /\ route[p] = "insert"
    /\ LET body == req[p].body
           docs == IF Truthy(body.documents) /\ body.documents.kind = "array"
                   THEN body.documents.items
                   ELSE <<body.document.doc>>
           ids == FreshIds(Len(docs))
       IN IF \E i \in DOMAIN docs : ~Validate(docs[i])
          THEN Catch(p, req[p], "ValidationError") /\ UNCHANGED <<records, nextId>>
          ELSE IF ~answers
          THEN Catch(p, req[p], "DatabaseError") /\ UNCHANGED <<records, nextId>>
          ELSE /\ records' = StoreRecords(Model[p], RecordsOf(Model[p]) \cup
                                 {[id |-> ids[i], doc |-> docs[i]] : i \in DOMAIN docs})
               /\ nextId' = nextId + Len(docs)
               /\ Respond(p, req[p], 201, NoError,
                          IF Truthy(body.documents) /\ body.documents.kind = "array"
                          THEN "insertedIds" ELSE "insertedId", ids)
    /\ QueryFrame

\* POST /insert: `await Model.create(req.body.document)` when the body has a
\* document, else `await Model.insertMany(req.body.documents)`, settles.
\* Both validate every document first and store nothing when one fails.
InsertDone(p, answers) ==
    /\ hpc[p] = "awaitOp" /\ route[p] = "insert"
    /\ LET body == req[p].body
           docs == IF Truthy(body.document)
                   THEN <<body.document.doc>>
                   ELSE body.documents.items
           ids == FreshIds(Len(docs))
       IN IF \E i \in DOMAIN docs : ~Validate(docs[i])
          THEN Catch(p, req[p], "ValidationError") /\ UNCHANGED <<records, nextId>>
          ELSE IF ~answers
          THEN Catch(p, req[p], "DatabaseError") /\ UNCHANGED <<records, nextId>>
          ELSE /\ records' = StoreRecords(Model[p], RecordsOf(Model[p]) \cup
                                 {[id |-> ids[i], doc |-> docs[i]] : i \in DOMAIN docs})
               /\ nextId' = nextId + Len(docs)
               /\ Respond(p, req[p], 201, NoError,
                          IF Truthy(body.document) THEN "insertedId" ELSE "insertedIds",
                          ids)
    /\ QueryFrame

\* DELETE /delete: `await Model.findByIdAndDelete(id)` settles: a CastError
\* when id is no ObjectId, null when no document has it
DeleteDone(p, answers) ==
    /\ hpc[p] = "awaitOp" /\ route[p] = "delete"
    /\ LET id == req[p].id
           found == {r \in RecordsOf(Model[p]) : CastsToObjectId(id) /\ r.id = id.n}
       IN IF ~CastsToObjectId(id)
          THEN Catch(p, req[p], "CastError") /\ records' = records
          ELSE IF ~answers
          THEN Catch(p, req[p], "DatabaseError") /\ records' = records
          ELSE IF found = {}
          THEN Respond(p, req[p], 404, NoError, "none", <<>>) /\ records' = records
          ELSE /\ records' = StoreRecords(Model[p], RecordsOf(Model[p]) \ found)
               /\ Respond(p, req[p], 200, NoError, "none", <<id.n>>)
    /\ nextId' = nextId
    /\ QueryFrame

\* PUT /update: `await Model.findByIdAndUpdate(id, { $set: update }, { new:
\* true, runValidators: true })` settles: a CastError when id is no ObjectId, a
\* ValidationError when the update is invalid, null when no document has id
UpdateDone(p, answers) ==
    /\ hpc[p] = "awaitOp" /\ route[p] = "update"
    /\ LET id == req[p].id
           update == req[p].body.update.doc
           found == {r \in RecordsOf(Model[p]) : CastsToObjectId(id) /\ r.id = id.n}
       IN IF ~CastsToObjectId(id)
          THEN Catch(p, req[p], "CastError") /\ records' = records
          ELSE IF ~ValidateUpdate(update)
          THEN Catch(p, req[p], "ValidationError") /\ records' = records
          ELSE IF ~answers
          THEN Catch(p, req[p], "DatabaseError") /\ records' = records
          ELSE IF found = {}
          THEN Respond(p, req[p], 404, NoError, "message", <<>>) /\ records' = records
          ELSE /\ records' = StoreRecords(Model[p],
                                 (RecordsOf(Model[p]) \ found) \cup
                                 {[r EXCEPT !.doc.price = update.price] : r \in found})
               /\ Respond(p, req[p], 200, NoError, "modifiedDocument", <<id.n>>)
    /\ nextId' = nextId
    /\ QueryFrame

\* ------------------------------------------------------------------ startServer
\* the task that runs startServer (the module calls it once, line 250)
Starter == 1
\* testDatabases, in the order of the loop
TestDatabasesSeq == <<"ProductsDB", "UsersEmployeesDB">>
\* testCollections for dbName
TestCollectionsOf(d) ==
    IF d = "ProductsDB" THEN <<"Products">> ELSE <<"Users", "Employees">>
\* the database the loop turns to after d, or "none"
NextDatabase(d) ==
    IF \E i \in 1..(Len(TestDatabasesSeq) - 1) : TestDatabasesSeq[i] = d
    THEN TestDatabasesSeq[(CHOOSE i \in 1..(Len(TestDatabasesSeq) - 1) :
                              TestDatabasesSeq[i] = d) + 1]
    ELSE "none"

\* the registry, as a step outside it leaves it
RegistryFrame ==
    UNCHANGED <<uriMap, connections, models, pc, op, db, coll, cres, cerr, settled,
                estLog, builds, returned, handed, calls, hits>>

\* startServer moves on: where it stands and its locals
StartGoes(at, d, cs, m, e) ==
    /\ startAt' = at
    /\ dbName' = d
    /\ testCollections' = cs
    /\ startModel' = m
    /\ err' = e

\* the catch block: console.error, process.exit(1)
Exit(e) == StartGoes("exited", dbName, testCollections, Undefined, e)

\* `await getConnection(dbName)` (line 229), up to the await or into the catch
StartGetConnection(d) ==
    /\ GetConnectionCall(Starter, d, calls + 1)
    /\ IF pc'[Starter] # "idle"
       THEN StartGoes("awaitConnection", d, <<>>, Undefined, NoError)
       ELSE IF settled'.err # NoError
       THEN StartGoes("exited", d, <<>>, Undefined, settled'.err)
       ELSE StartGoes("connected", d, <<>>, Undefined, NoError)

\* `await getModel(dbName, collectionName)` (line 235) for the first of cs
StartGetModel(d, cs) ==
    /\ GetModelCall(Starter, d, Head(cs), calls + 1)
    /\ IF pc'[Starter] # "idle"
       THEN StartGoes("awaitModel", d, cs, Undefined, NoError)
       ELSE StartGoes("modelled", d, cs, settled'.ret, NoError)

\* startServer() is called: the first iteration of the loop over testDatabases
StartServer ==
    /\ startAt = "notStarted"
    /\ StartGetConnection(TestDatabasesSeq[1])
    /\ UNCHANGED <<up, routeVars>>

\* the establishment startServer waits for resolves: the server answers
StartCreateResolve ==
    /\ startAt \in {"awaitConnection", "awaitModel"}
    /\ pc[Starter] = "awaitCreate"
    /\ up[db[Starter]]
    /\ CreateResolve(Starter)
    /\ IF startAt = "awaitConnection"
       THEN StartGoes("connected", dbName, <<>>, Undefined, NoError)
       ELSE UNCHANGED <<startAt, dbName, testCollections, startModel, err>>
    /\ UNCHANGED <<up, routeVars>>

\* the establishment startServer waits for rejects: the server is down
StartCreateReject ==
    /\ startAt \in {"awaitConnection", "awaitModel"}
    /\ pc[Starter] = "awaitCreate"
    /\ ~up[db[Starter]]
    /\ CreateReject(Starter)
    /\ IF startAt = "awaitConnection"
       THEN Exit("ConnectionError")
       ELSE UNCHANGED <<startAt, dbName, testCollections, startModel, err>>
    /\ UNCHANGED <<up, routeVars>>

\* getConnection has resolved: testCollections is set (line 233) and the inner
\* loop calls getModel for its first collection
StartTestCollections ==
    /\ startAt = "connected"
    /\ StartGetModel(dbName, TestCollectionsOf(dbName))
    /\ UNCHANGED <<up, routeVars>>

\* the getModel call of startServer resumes and settles: Model is set, or
\* the catch block runs
StartModelResume ==
    /\ startAt = "awaitModel"
    /\ ModelResume(Starter)
    /\ IF settled'.err # NoError
       THEN Exit(settled'.err)
       ELSE StartGoes("modelled", dbName, testCollections, settled'.ret, NoError)
    /\ UNCHANGED <<up, routeVars>>

\* getModel has resolved: startServer calls Model.estimatedDocumentCount()
\* and awaits it (line 236)
StartCount ==
    /\ startAt = "modelled"
    /\ StartGoes("awaitCount", dbName, testCollections, startModel, NoError)
    /\ RegistryFrame
    /\ UNCHANGED <<up, routeVars>>

\* `await Model.estimatedDocumentCount()` settles (line 236): into the catch
\* when the server is down, else on to the next collection, the next database,
\* or app.listen
StartCountDone ==
    /\ startAt = "awaitCount"
    /\ IF ~up[dbName]
       THEN Exit("DatabaseError") /\ RegistryFrame
       ELSE IF Len(testCollections) > 1
       THEN StartGetModel(dbName, Tail(testCollections))
       ELSE IF NextDatabase(dbName) # "none"
       THEN StartGetConnection(NextDatabase(dbName))
       ELSE StartGoes("listening", "none", <<>>, Undefined, NoError) /\ RegistryFrame
    /\ UNCHANGED <<up, routeVars>>

\* the MongoDB server of database d stops answering
Outage(d) ==
    /\ up[d]
    /\ up' = [up EXCEPT ![d] = FALSE]
    /\ RegistryFrame
    /\ UNCHANGED <<routeVars, startAt, dbName, testCollections, startModel, err>>

\* the MongoDB server of database d answers again
Recovery(d) ==
    /\ ~up[d]
    /\ up' = [up EXCEPT ![d] = TRUE]
    /\ RegistryFrame
    /\ UNCHANGED <<routeVars, startAt, dbName, testCollections, startModel, err>>

\* ------------------------------------------------------------------ specification
\* one step of task p, a caller of the registry that is no route handler, in a
\* behaviour of at most budget registry calls
Step(p, budget) ==
    \/ (\E d \in TestDatabases : GetConnectionCall(p, d, budget))
          /\ UNCHANGED <<routeVars, startVars>>
    \/ (\E d \in DbNames, c \in CollNames : GetModelCall(p, d, c, budget))
          /\ UNCHANGED <<routeVars, startVars>>
    \/ CreateResolve(p) /\ UNCHANGED <<routeVars, startVars>>
    \/ CreateReject(p) /\ UNCHANGED <<routeVars, startVars>>
    \/ ModelResume(p) /\ UNCHANGED <<routeVars, startVars>>

Next == \E p \in Procs : Step(p, MaxCalls)

Spec == Init /\ [][Next]_vars

\* the same program, followed for one more call
LongNext == \E p \in Procs : Step(p, MaxLongCalls)

LongSpec == Init /\ [][LongNext]_vars

\* one step of task p serving HTTP requests
Handle(p) ==
    \/ (\E q \in FindRequests : FindRequest(p, q)) /\ UNCHANGED startVars
    \/ (\E q \in InsertRequests : InsertRequest(p, q)) /\ UNCHANGED startVars
    \/ (\E q \in DeleteRequests : DeleteRequest(p, q)) /\ UNCHANGED startVars
    \/ (\E q \in UpdateRequests : UpdateRequest(p, q)) /\ UNCHANGED startVars
    \/ HandlerCreateResolve(p) /\ UNCHANGED startVars
    \/ HandlerCreateReject(p) /\ UNCHANGED startVars
    \/ HandlerModelResume(p) /\ UNCHANGED startVars
    \/ (\E answers \in BOOLEAN : FindDone(p, answers)) /\ UNCHANGED startVars
    \/ (\E answers \in BOOLEAN : InsertDone(p, answers)) /\ UNCHANGED startVars
    \/ (\E answers \in BOOLEAN : DeleteDone(p, answers)) /\ UNCHANGED startVars
    \/ (\E answers \in BOOLEAN : UpdateDone(p, answers)) /\ UNCHANGED startVars

\* the server, serving at most MaxRequests requests
RouteNext == \E p \in Handlers : Handle(p)

RouteSpec == Init /\ [][RouteNext]_vars

\* the process from its start: startServer runs alone until app.listen, while
\* the database servers come and go
StartNext ==
    \/ StartServer
    \/ StartCreateResolve
    \/ StartCreateReject
    \/ StartTestCollections
    \/ StartModelResume
    \/ StartCount
    \/ StartCountDone
    \/ \E d \in UriKeys : Outage(d)
    \/ \E d \in UriKeys : Recovery(d)

StartSpec == Init /\ [][StartNext]_vars

\* ------------------------------------------------------------------ properties
IsConnection(v) == v.kind = "Connection"
Established(v) == v.kind = "Connection" /\ v.state = "connected"
\* the collection names the switch in getModel has a case for
SwitchCases == {"Products", "Users", "Employees"}

\* this step starts a getConnection(d) call made by a caller of the registry
StartsGetConnection(d) ==
    /\ calls' = calls + 1
    /\ \/ pc' = pc /\ settled'.op = "getConnection" /\ settled'.db = d
       \/ \E p \in Procs : /\ pc[p] = "idle" /\ pc'[p] = "awaitCreate"
                           /\ op'[p] = "getConnection" /\ db'[p] = d

\* C1: two getModel calls for one key that run concurrently from an empty cache
\* lead to exactly one connection.model call for the key, and every caller is
\* handed the same accessor.
C1_SingleConstruction ==
    \A k \in ModelKeys : builds[k] <= 1 /\ Cardinality(handed[k]) <= 1

\* C2: no state has two mongoose.createConnection calls for one database
\* in flight at once.
C2_OneEstablishmentInFlight ==
    \A d \in UriKeys : Cardinality(InFlight(d)) <= 1

\* C3: at most one Connection is ever created per database (none is ever
\* closed), counting the ones no longer stored in the cache.
C3_OneConnectionPerIdentity ==
    \A d \in UriKeys : created(d) <= 1

\* C4: no two successful getConnection calls for one database return
\* different instances.
C4_SameInstanceReturned ==
    \A d \in UriKeys : Cardinality(returned[d]) <= 1

\* C5: a getConnection(d) call that starts after a getConnection(d) call has
\* returned successfully returns the very instance that call returned, without
\* awaiting, with no createConnection call and the connection cache unchanged.
C5_SecondCallReturnsSameInstance ==
    [][\A d \in UriKeys :
          (returned[d] # {} /\ StartsGetConnection(d))
              => /\ pc' = pc
                 /\ settled'.err = NoError
                 /\ returned[d] = {settled'.ret}
                 /\ estLog' = estLog
                 /\ connections' = connections]_vars

\* C6: getConnection(d) for a name d that is no key of uriMap throws
\* 'No URI mapped for database', calls createConnection for nothing and leaves
\* the connection cache as it was (seen where getModel calls it, line 87).
C6_UnmappedNameRejected ==
    [][\A p \in Procs : \A d \in DbNames \ UriKeys :
          (pc[p] = "idle" /\ pc'[p] = "awaitConn" /\ db'[p] = d)
              => /\ cerr'[p] = "UnconfiguredDatabase"
                 /\ estLog' = estLog
                 /\ connections' = connections]_vars

\* C7: getModel(d, c) for a collection name c the switch has no case for, on a
\* mapped database whose connection was established, throws 'No schema defined
\* for collection'; no step of that call changes the accessor cache, and the
\* Connection for d is in the connection cache when it throws.
C7_UnknownCollectionFails ==
    [][\A p \in Procs :
          /\ (/\ pc[p] = "awaitConn" /\ pc'[p] = "idle"
              /\ coll[p] \notin SwitchCases
              /\ cerr[p] = NoError /\ IsConnection(cres[p]))
                 => /\ settled'.op = "getModel"
                    /\ settled'.err = "UnknownCollection"
                    /\ models' = models
                    /\ builds' = builds
                    /\ Established(Lookup(connections', db[p]))
          /\ (pc'[p] # pc[p] /\ op'[p] = "getModel" /\ coll'[p] \notin SwitchCases)
                 => models' = models]_vars

C7_Witness ==
    /\ settled.op = "getModel" /\ settled.err = "UnknownCollection"
    /\ settled.db \in UriKeys /\ settled.coll \notin SwitchCases
    /\ Established(connections[settled.db])
    /\ \A k \in ModelKeys : models[k] = Undefined

C9_ConnectionFailurePropagates ==
    [][\A p \in Procs :
          (pc[p] = "awaitConn" /\ pc'[p] = "idle" /\ cerr[p] # NoError)
              => /\ cerr[p] \in {"UnconfiguredDatabase", "ConnectionError"}
                 /\ settled'.op = "getModel"
                 /\ settled'.err = cerr[p]
                 /\ settled'.ret = Undefined
                 /\ models' = models
                 /\ builds' = builds]_vars

C9_Witness ==
    /\ settled.op = "getModel" /\ settled.err = "ConnectionError"
    /\ settled.db \in UriKeys /\ failed(settled.db) > 0
    /\ \A k \in ModelKeys : models[k] = Undefined /\ builds[k] = 0

\* C10: every entry of the connection cache is an established Connection that
\* a resolved createConnection call produced, every entry of the accessor cache
\* is a model built on an established Connection, and no caller holds or is
\* handed a Connection that is not established.
C10_CachesHoldCompleteValues ==
    /\ \A d \in UriKeys :
          connections[d] # Undefined
              => /\ Established(connections[d])
                 /\ connections[d].of = d
                 /\ connections[d].id <= created(d)
    /\ \A k \in ModelKeys :
          models[k] # Undefined
              => /\ models[k].kind = "Model"
                 /\ Established(models[k].conn)
                 /\ models[k].id <= builds[k]
    /\ \A p \in Procs : IsConnection(cres[p]) => Established(cres[p])
    /\ IsConnection(settled.ret) => Established(settled.ret)
    /\ \A d \in UriKeys : \A v \in returned[d] : Established(v)

C10_Witness ==
    /\ \E d \in UriKeys : connections[d] # Undefined
    /\ \E k \in ModelKeys : models[k] # Undefined

\* C11: while task p awaits the establishment for one database, a task q
\* working on another database is never held up: q's pending establishment can
\* resolve, q's getModel can resume and build, and an idle q can start a
\* getModel for any other database.
C11_OtherKeysProceed ==
    \A p \in Procs : \A q \in Procs \ {p} :
        pc[p] = "awaitCreate"
            => /\ (pc[q] = "awaitCreate" /\ db[q] # db[p]) => ENABLED CreateResolve(q)
               /\ (pc[q] = "awaitConn" /\ db[q] # db[p]) => ENABLED ModelResume(q)
               /\ (pc[q] = "idle" /\ calls < MaxCalls)
                     => \A d \in DbNames \ {db[p]} : \A c \in CollNames :
                           ENABLED GetModelCall(q, d, c, MaxCalls)

C11_Witness ==
    \E p \in Procs : \E q \in Procs \ {p} :
        /\ pc[p] = "awaitCreate" /\ pc[q] = "awaitCreate" /\ db[q] # db[p]
        /\ p < q

\* this step starts a getModel(d, c) call made by a caller of the registry
StartsGetModel(d, c) ==
    /\ calls' = calls + 1
    /\ \/ /\ pc' = pc /\ settled'.op = "getModel"
          /\ settled'.db = d /\ settled'.coll = c
       \/ \E p \in Procs : /\ pc[p] = "idle" /\ pc'[p] # "idle" /\ op'[p] = "getModel"
                           /\ db'[p] = d /\ coll'[p] = c

\* C12: a getModel(d, c) call that finds its key in the accessor cache returns
\* the cached accessor without awaiting, starts no establishment, builds no
\* model and leaves the connection cache and the accessor cache unchanged.
C12_CacheHitChangesNothing ==
    [][\A d \in DbNames : \A c \in CollNames :
          (Truthy(Lookup(models, modelKey(d, c))) /\ StartsGetModel(d, c))
              => /\ pc' = pc
                 /\ settled' = Outcome("getModel", d, c, models[modelKey(d, c)], NoError)
                 /\ estLog' = estLog
                 /\ builds' = builds
                 /\ connections' = connections
                 /\ models' = models]_vars

C12_Witness ==
    /\ hits = 1 /\ calls = 2
    /\ \A p \in Procs : pc[p] = "idle"
    /\ settled.op = "getModel" /\ settled.err = NoError
    /\ settled.ret = models[modelKey(settled.db, settled.coll)]
    /\ builds[modelKey(settled.db, settled.coll)] = 1

\* C17: every accessor in the accessor cache is bound to the Connection that
\* the connection cache holds for its database at that moment.
C17_AccessorBoundToCachedConnection ==
    \A d \in DbNames : \A c \in CollNames :
        models[modelKey(d, c)] # Undefined
            => /\ d \in UriKeys
               /\ models[modelKey(d, c)].conn = connections[d]

\* C18: a getModel call for Products, Users or Employees whose getConnection
\* call returned an established Connection returns a model and stores it in
\* the accessor cache under its key; it does not throw.
C18_SwitchNamesSucceed ==
    [][\A p \in Procs :
          (/\ pc[p] = "awaitConn" /\ pc'[p] = "idle"
           /\ coll[p] \in SwitchCases
           /\ cerr[p] = NoError /\ Established(cres[p]))
              => /\ settled'.err = NoError
                 /\ settled'.ret.kind = "Model"
                 /\ models'[modelKey(db[p], coll[p])] = settled'.ret]_vars

\* this step sends the response to request q
Answered(q) ==
    \/ \E p \in Procs : route[p] # "none" /\ req[p] = q /\ route'[p] = "none"
    \/ requests' = requests + 1 /\ route' = route /\ response'.request = q
\* this step receives request q
Received(q) ==
    /\ requests' = requests + 1
    /\ \/ route' = route /\ response'.request = q
       \/ \E p \in Procs : route[p] = "none" /\ req'[p] = q
\* the body has no `document` field and no `documents` array
NeitherSupplied(body) ==
    body.document = Undefined /\ body.documents.kind # "array"
\* the body has a `document` object and a `documents` array
BothSupplied(body) ==
    body.document.kind = "object" /\ body.documents.kind = "array"

\* C13 as stated: every POST /insert request whose body has neither a
\* `document` field nor a `documents` array is answered 400, and inserts nothing.
C13_InsertWithoutDocumentsIs400 ==
    [][\A q \in InsertRequests :
          (NeitherSupplied(q.body) /\ Answered(q))
              => /\ response'.status = 400
                 /\ records' = records]_vars

\* C13 as amended: such a request is answered 400 when the handler's getModel
\* call resolved and 500, with getModel's error, when it threw; it inserts
\* nothing either way.
C13_InsertWithoutDocumentsIs400Or500 ==
    [][\A q \in InsertRequests :
          (NeitherSupplied(q.body) /\ Answered(q))
              => /\ settled'.op = "getModel"
                 /\ settled'.db = q.database /\ settled'.coll = q.collection
                 /\ response'.error = settled'.err
                 /\ response'.status = IF settled'.err = NoError THEN 400 ELSE 500
                 /\ response'.ids = <<>>
                 /\ records' = records
                 /\ nextId' = nextId]_vars

C13_Witness ==
    /\ response.route = "insert" /\ response.status = 400
    /\ NeitherSupplied(response.request.body)
    /\ models[modelKey(response.request.database, response.request.collection)]
           # Undefined
    /\ \A d \in UriKeys : \A c \in CollNames : records[d][c] = {SeedRecord}

\* C14: a DELETE /delete or PUT /update (with a valid `update`) whose :id is
\* the _id of no document of the collection is answered 404 (unless the
\* database is down) and leaves the collection as it was.
C14_NotFoundIs404 ==
    [][\A p \in Procs :
          (/\ hpc[p] = "awaitOp" /\ route[p] \in {"delete", "update"}
           /\ route'[p] = "none"
           /\ route[p] = "update" => ValidateUpdate(req[p].body.update.doc)
           /\ \A r \in RecordsOf(Model[p]) : ObjectId(r.id) # req[p].id
           /\ response'.error # "DatabaseError")
              => /\ response'.status = 404
                 /\ records' = records]_vars

\* C15: a PUT /update request without `update` in its body is answered 400 in
\* the step that receives it, for every path: no getModel or getConnection
\* call, no establishment, no model built, both caches unchanged.
C15_UpdateWithoutBodyIs400 ==
    [][\A q \in UpdateRequests :
          (q.body.update = Undefined /\ Received(q))
              => /\ response' = Response("update", q, 400, NoError, "error", <<>>)
                 /\ route' = route /\ hpc' = hpc
                 /\ calls' = calls /\ pc' = pc /\ settled' = settled
                 /\ estLog' = estLog /\ builds' = builds
                 /\ connections' = connections /\ models' = models
                 /\ records' = records]_vars

C15_Witness ==
    /\ response.route = "update" /\ response.status = 400
    /\ response.request.body.update = Undefined
    /\ response.request.database \notin UriKeys
    /\ requests = 1 /\ calls = 0
    /\ \A d \in UriKeys : estLog[d] = <<>> /\ connections[d] = Undefined

\* C16 as stated: every POST /insert request whose body has both `document`
\* and `documents` is answered 201 with one inserted id, and exactly the
\* single document is inserted.
C16_DocumentInserted ==
    [][\A p \in Procs :
          (route[p] = "insert" /\ route'[p] = "none" /\ BothSupplied(req[p].body))
              => /\ response'.status = 201
                 /\ response'.field = "insertedId"
                 /\ Len(response'.ids) = 1
                 /\ hpc[p] = "awaitOp"
                 /\ records' = StoreRecords(Model[p], RecordsOf(Model[p]) \cup
                        {[id |-> response'.ids[1], doc |-> req[p].body.document.doc]})]_vars

\* C16 as amended: for such a request only `document` is ever inserted. When
\* getModel threw, or `document` fails validation, or the database is down,
\* the answer is 500 and nothing is inserted; otherwise exactly the single
\* document is inserted under a fresh _id and the 201 response carries that
\* one id. What `documents` holds never matters.
C16_DocumentTakesPrecedence ==
    [][\A p \in Procs :
          (route[p] = "insert" /\ route'[p] = "none" /\ BothSupplied(req[p].body))
              => LET doc == req[p].body.document.doc
                     nothing == /\ response'.status = 500 /\ response'.ids = <<>>
                                /\ records' = records /\ nextId' = nextId
                 IN IF hpc[p] = "awaitModel"
                    THEN nothing /\ settled'.err # NoError
                                 /\ response'.error = settled'.err
                    ELSE IF ~Validate(doc)
                    THEN nothing /\ response'.error = "ValidationError"
                    ELSE \/ nothing /\ response'.error = "DatabaseError"
                         \/ /\ response'.status = 201
                            /\ response'.field = "insertedId"
                            /\ response'.ids = <<nextId>>
                            /\ records' = StoreRecords(Model[p],
                                   RecordsOf(Model[p]) \cup {[id |-> nextId, doc |-> doc]})]_vars

C16_Witness ==
    /\ response.route = "insert" /\ response.status = 201
    /\ BothSupplied(response.request.body)
    /\ response.field = "insertedId" /\ response.ids = <<SeedRecord.id + 1>>
    /\ records["ProductsDB"]["Products"] =
          {SeedRecord, [id |-> SeedRecord.id + 1, doc |-> response.request.body.document.doc]}

\* C19: startServer exits with code 1 only when a database URI is missing or
\* an establishment or a document count failed (so with both URIs set and the
\* servers answering it goes on to app.listen), and when it listens both
\* connections and the accessors for Products, Users and Employees are cached.
C19_StartServerListens ==
    /\ startAt = "exited"
          => err \in {"UnconfiguredDatabase", "ConnectionError", "DatabaseError"}
    /\ startAt = "listening"
          => /\ \A d \in UriKeys : Established(connections[d])
             /\ models[modelKey("ProductsDB", "Products")] # Undefined
             /\ models[modelKey("UsersEmployeesDB", "Users")] # Undefined
             /\ models[modelKey("UsersEmployeesDB", "Employees")] # Undefined
====
